---- MODULE Spec2Model ----
(***************************************************************************)
(* Model of the admissioner bindings of libCacheSim-python:                *)
(*   src/src/export_admissioner.cpp  (admissioner_t bindings, the plugin   *)
(*                                    admissioner and its trampolines)     *)
(*   src/src/exception.cpp           (the exception translator)            *)
(*                                                                         *)
(* The native heap holds admissioner_t records and                         *)
(* pypluginAdmissioner_params_t wrappers; the Python heap holds the state  *)
(* objects the init hook returns.  Every bound function is one action,     *)
(* its Python hooks included: what a hook returns, or that it raises, is   *)
(* an input of the action.                                                 *)
(***************************************************************************)
EXTENDS Integers, Sequences, FiniteSets, TLC

\* ------------------------------------------------------------ bounds
MaxRecs == 2          \* admissioner_t records allocated at one time
MaxVal == 1           \* a Python state object holds a value in 0..MaxVal
MaxFree == 2          \* invocations of the free hook of one wrapper
CACHE_NAME_LEN == 2   \* capacity of admissioner_name, scaled down
MaxThreads == 2       \* threads that call into the function table
MaxConfig == 2        \* bytes of a configuration string

NULL == 0             \* nullptr, and the null handle of py::object / py::function
PyNone == "None"      \* Python's None object

Reqs == {1, 2}        \* requests, by object size
CacheSizes == {8}     \* cache_size arguments of update
Bytes == {0, 1, 2}    \* 0 is the NUL byte

\* ------------------------------------------------------------ exceptions
\* A C++ exception in flight: its dynamic type, what(), and for
\* py::error_already_set the Python exception it carries.
Exc(type, what) == [type |-> type, what |-> what, py |-> "none"]
PyRaised(kind, what) == [type |-> "error_already_set", what |-> what, py |-> kind]
NoExc == [type |-> "none", what |-> "", py |-> "none"]

\* Python exceptions a hook raises.
HookExcs == {PyRaised("ValueError", "hook failed")}

\* Base class of each exception type (the C++ standard library's hierarchy,
\* pybind11's cast_error); "none" for the root and for a type that is not a
\* std::exception.
StdParent(t) ==
  CASE t = "bad_alloc" -> "exception"
    [] t = "logic_error" -> "exception"
    [] t = "runtime_error" -> "exception"
    [] t = "bad_cast" -> "exception"
    [] t \in {"invalid_argument", "domain_error", "length_error", "out_of_range"}
         -> "logic_error"
    [] t \in {"range_error", "overflow_error", "underflow_error", "cast_error"}
         -> "runtime_error"
    [] OTHER -> "none"

\* CacheException and ReaderException derive from std::runtime_error.
CustomParent(t) ==
  IF t \in {"CacheException", "ReaderException"} THEN "runtime_error" ELSE "none"

Parent(t) == IF CustomParent(t) /= "none" THEN CustomParent(t) ELSE StdParent(t)

ThrownTypes ==
  {"CacheException", "ReaderException", "bad_alloc", "logic_error",
   "invalid_argument", "domain_error", "length_error", "out_of_range",
   "runtime_error", "range_error", "overflow_error", "underflow_error",
   "cast_error", "bad_cast", "exception", "int"}

RECURSIVE IsA(_, _)
\* catch (const c&) matches an exception of dynamic type t
IsA(t, c) == IF t = "none" THEN FALSE
             ELSE IF t = c THEN TRUE
             ELSE IsA(Parent(t), c)

\* The translator's catch clauses, in source order.
CatchOrderWrong ==
  << "CacheException", "ReaderException", "bad_alloc", "invalid_argument",
     "out_of_range", "domain_error", "runtime_error", "overflow_error",
     "range_error", "exception" >>

CatchOrder ==
  << "CacheException", "ReaderException", "bad_alloc", "invalid_argument",
     "out_of_range", "domain_error", "overflow_error", "range_error",
     "runtime_error", "exception" >>

ClauseErrorUnqualified(c, what) ==
  [exc |-> IF c \in {"CacheException", "ReaderException"} THEN c ELSE "RuntimeError",
   msg |-> what]

\* What each clause sets as the Python error.
ClauseError(c, what) ==
  CASE c = "CacheException" -> [exc |-> "CacheException", msg |-> what]
    [] c = "ReaderException" -> [exc |-> "ReaderException", msg |-> what]
    [] c = "bad_alloc" -> [exc |-> "MemoryError", msg |-> what]
    [] c = "invalid_argument" -> [exc |-> "ValueError", msg |-> what]
    [] c = "out_of_range" -> [exc |-> "IndexError", msg |-> what]
    [] c = "domain_error" -> [exc |-> "ValueError", msg |-> "Domain error: " \o what]
    [] c = "overflow_error" -> [exc |-> "OverflowError", msg |-> what]
    [] c = "range_error" -> [exc |-> "ValueError", msg |-> "Range error: " \o what]
    [] c = "runtime_error" -> [exc |-> "RuntimeError", msg |-> what]
    [] c = "exception" -> [exc |-> "RuntimeError", msg |-> "C++ exception: " \o what]

\* The first clause that matches, 0 when none does (the exception leaves the
\* translator and pybind11 tries the translators registered before it).
FirstMatch(t) ==
  LET hits == {i \in 1..Len(CatchOrder) : IsA(t, CatchOrder[i])}
  IN IF hits = {} THEN 0 ELSE CHOOSE i \in hits : \A j \in hits : i <= j

\* register_exception's translator applied to the exception e.
Translate(e) ==
  LET i == FirstMatch(e.type)
  IN IF i = 0
       THEN [exc |-> "untranslated", msg |-> e.what, clause |-> "none"]
       ELSE [exc |-> ClauseError(CatchOrder[i], e.what).exc,
             msg |-> ClauseError(CatchOrder[i], e.what).msg,
             clause |-> CatchOrder[i]]

\* An exception that leaves the translator goes to the translators registered
\* before it, the last of which is pybind11's own: its catch (...) reports
\* what no other clause took.
DefaultTranslator(e) ==
  [exc |-> "RuntimeError", msg |-> "Caught an unknown exception!", clause |-> "none"]

\* The error the Python caller of a bound function sees for the exception e:
\* pybind11 restores a py::error_already_set as the Python exception it
\* carries, every other exception goes to the registered translator.
CallerError(e) ==
  IF e.type = "error_already_set"
    THEN [exc |-> e.py, msg |-> e.what, clause |-> "none"]
  ELSE IF Translate(e).clause = "none" THEN DefaultTranslator(e)
  ELSE Translate(e)


\* ------------------------------------------------------------ heaps
Min(S) == CHOOSE x \in S : \A y \in S : x <= y

\* malloc / new: the lowest free address, so that a freed address is handed
\* out again.
NewId(h) == Min((1..(Cardinality(DOMAIN h) + 1)) \ DOMAIN h)
HeapAlloc(h, x) == LET id == NewId(h)
                   IN [i \in DOMAIN h \cup {id} |-> IF i = id THEN x ELSE h[i]]
HeapFree(h, id) == [i \in DOMAIN h \ {id} |-> h[i]]
EmptyHeap == [i \in {} |-> 0]

\* Records: an address in m.stale was freed while a Python instance still
\* points at it; its bytes stay as they were until malloc hands the address
\* out again.
NewRec(m) == Min((1..(Cardinality(DOMAIN m.recs) + 1)) \ (DOMAIN m.recs \ m.stale))
AllocRec(m, x) ==
  LET id == NewRec(m)
  IN [m EXCEPT !.recs = [i \in DOMAIN m.recs \cup {id} |-> IF i = id THEN x ELSE m.recs[i]],
               !.stale = @ \ {id}]

\* ------------------------------------------------------------ names
\* The bytes of s before its first NUL: what a C string function reads of
\* val.c_str().
FirstNul(s) == IF \E i \in 1..Len(s) : s[i] = 0
                 THEN Min({i \in 1..Len(s) : s[i] = 0})
                 ELSE Len(s) + 1
CStr(s) == SubSeq(s, 1, FirstNul(s) - 1)

\* strncpy(dst, src, n): the first n bytes of the C string src, NUL-padded
\* to n bytes (and not terminated when src has n bytes or more).
Strncpy(src, n) == [i \in 1..n |-> IF i <= Len(CStr(src)) THEN CStr(src)[i] ELSE 0]

SetNameNoTerminator(val) == Strncpy(val, CACHE_NAME_LEN)

\* The admissioner_name setter: the char array it leaves in the record.
SetName(val) == [Strncpy(val, CACHE_NAME_LEN) EXCEPT ![CACHE_NAME_LEN] = 0]

\* The admissioner_name getter, std::string(self.admissioner_name).
GetName(arr) == CStr(arr)

\* The init_params setter: strdup(val.c_str()).
Strdup(val) == CStr(val)

NameVals == UNION {[1..n -> Bytes] : n \in 0..(CACHE_NAME_LEN + 1)}
InitParamVals == {<<1>>, <<2, 0, 1>>}
NoString == << 0 >>      \* init_params == nullptr (no C string holds a NUL)

\* ------------------------------------------------------------ records
NullFn == "nullptr"       \* an unset function-table entry
NullHook == "null"        \* a default-constructed py::function

\* admissioner_t after value-initialisation or memset(0).
ZeroRecord ==
  [admissioner_name |-> [i \in 1..CACHE_NAME_LEN |-> 0], init_params |-> NoString,
   admit |-> NullFn, clone |-> NullFn, update |-> NullFn, free |-> NullFn,
   params |-> NULL]

PluginRecordWithoutUpdate ==
  [ZeroRecord EXCEPT !.admit = "pypluginAdmissioner_admit",
                     !.clone = "pypluginAdmissioner_clone",
                     !.free = "pypluginAdmissioner_free"]

\* The record create_plugin_admissioner fills in before it builds the wrapper.
PluginRecord ==
  [ZeroRecord EXCEPT !.admit = "pypluginAdmissioner_admit",
                     !.clone = "pypluginAdmissioner_clone",
                     !.free = "pypluginAdmissioner_free",
                     !.update = "pypluginAdmissioner_update"]

\* new pypluginAdmissioner_params_t(); free_calls counts the invocations of
\* the free hook made through the wrapper.
NewParams ==
  [data |-> NULL, admissioner_init_hook |-> NullHook,
   admissioner_admit_hook |-> NullHook, admissioner_clone_hook |-> NullHook,
   admissioner_update_hook |-> NullHook, admissioner_free_hook |-> NullHook,
   admissioner_name |-> << >>, free_calls |-> 0]

\* The hook sets a caller supplies; they differ in the admit hook.
AdmitHooks == {"admit_always_true", "admit_by_state", "admit_returns_none",
               "admit_returns_req"}


\* ------------------------------------------------------------ Python values
PyVal(t, v) == [t |-> t, v |-> v]
NoRet == PyVal("none", 0)
PyBool(b) == PyVal("bool", IF b THEN 1 ELSE 0)
PyRec(a) == PyVal("Admissioner", a)
PyReq(q) == PyVal("Request", q)

\* py::object::cast<bool>(): True and False convert to themselves, None to
\* false, an object with __bool__ to its truth value; anything else is a
\* cast_error.
CastBool(x) ==
  CASE x.t = "bool" -> [ok |-> TRUE, value |-> x.v = 1]
    [] x.t = "none" -> [ok |-> TRUE, value |-> FALSE]
    [] x.t = "int" -> [ok |-> TRUE, value |-> x.v /= 0]
    [] OTHER -> [ok |-> FALSE, value |-> FALSE]

\* py::object::cast<admissioner_t *>(): an Admissioner instance converts to
\* the record it holds, None to nullptr; anything else is a cast_error.
CastRec(x) ==
  CASE x.t = "Admissioner" -> [ok |-> TRUE, value |-> x.v]
    [] x.t = "none" -> [ok |-> TRUE, value |-> NULL]
    [] OTHER -> [ok |-> FALSE, value |-> NULL]

CastError == Exc("cast_error", "Unable to cast Python instance to C++ type")

\* What each admit hook returns for a state holding val and a request req.
AdmitHookReturn(hook, val, req) ==
  CASE hook = "admit_always_true" -> PyBool(TRUE)
    [] hook = "admit_by_state" -> PyBool(req <= val)
    [] hook = "admit_returns_none" -> NoRet
    [] hook = "admit_returns_req" -> PyReq(req)

\* ------------------------------------------------------------ the machine
\* m = [recs, wraps, objs, stale]: the admissioner_t records, the wrappers
\* and the Python state objects, each a heap, and the freed record addresses
\* still pointed at.  An operation yields
\*   [m, exc, ret, hooks, attempts]
\* the heaps after it, the exception it throws (NoExc when it returns), its
\* return value, the hooks it invoked in order, and how many times it
\* evaluated a call of a free hook.
Outcome(m, exc, ret, hooks, attempts) ==
  [m |-> m, exc |-> exc, ret |-> ret, hooks |-> hooks, attempts |-> attempts]

\* Python frees a state object once no wrapper holds it.
Collect(m) ==
  LET held == {m.wraps[w].data : w \in DOMAIN m.wraps}
  IN [m EXCEPT !.objs = [o \in DOMAIN m.objs \cap held |-> m.objs[o]]]

\* The free hook invoked on the state object o: the hook's own teardown.
FreeHookRuns(m, o) == [m EXCEPT !.objs[o].freed = @ + 1]

DeleterSkipsDelete(m, ptr, free_raises) ==
  Outcome(m, NoExc, NoRet, << >>, 0)

\* PypluginAdmissionerParamsDeleter::operator().  The call of line 41 first
\* converts its argument: a null data handle is a cast_error, thrown before
\* anything of Python runs, and swallowed like a failure of the hook, which
\* the list of hooks records as "free_raised".
Deleter(m, ptr, free_raises) ==
  IF ptr = NULL THEN Outcome(m, NoExc, NoRet, << >>, 0)
  ELSE LET w == m.wraps[ptr]
           tried == w.admissioner_free_hook /= PyNone
           runs == tried /\ w.data /= NULL /\ w.admissioner_free_hook /= NullHook
           m1 == IF runs THEN FreeHookRuns(m, w.data) ELSE m
           m2 == Collect([m1 EXCEPT !.wraps = HeapFree(@, ptr)])
       IN Outcome(m2, NoExc, NoRet,
                  IF ~runs THEN << >>
                  ELSE IF free_raises THEN << "free_raised" >> ELSE << "free" >>,
                  IF tried THEN 1 ELSE 0)


\* What the init hook does: returns a new state object holding val, returns
\* the existing object obj, or raises exc.
InitNew(val) == [kind |-> "new", val |-> val, obj |-> NULL, exc |-> NoExc]
InitSame(obj) == [kind |-> "same", val |-> 0, obj |-> obj, exc |-> NoExc]
InitRaises(exc) == [kind |-> "raise", val |-> 0, obj |-> NULL, exc |-> exc]

\* Native allocation failures of create_plugin_admissioner: malloc (line 60),
\* new (line 75), the std::string assignment (line 81).
CreateFails == {"none", "malloc", "new", "name"}

NewObject(val) == [val |-> val, freed |-> 0]

CreateCatchKeepsParams(m, admissioner, params, exc, hooks, free_raises) ==
  Outcome([m EXCEPT !.recs = HeapFree(@, admissioner)], exc, NoRet, hooks, 0)

\* The catch block of lines 86-89, then the unwinding of `params`.
CreateCatch(m, admissioner, params, exc, hooks, free_raises) ==
  LET m1 == [m EXCEPT !.recs = HeapFree(@, admissioner)]
      d == Deleter(m1, params, free_raises)
  IN Outcome(d.m, exc, NoRet, hooks \o d.hooks, d.attempts)

\* create_plugin_admissioner(admissioner_name, init, admit, clone, update, free)
CreatePluginAdmissioner(m, name, admit_hook, init, fail, free_raises) ==
  IF fail = "malloc"
    THEN Outcome(m, Exc("runtime_error", "Failed to initialize admissioner structure"),
                 NoRet, << >>, 0)
  ELSE
  LET admissioner == NewRec(m)
      m1 == AllocRec(m, PluginRecord)
  IN IF fail = "new"
       THEN CreateCatch(m1, admissioner, NULL, Exc("bad_alloc", "std::bad_alloc"),
                        << >>, free_raises)
  ELSE
  LET params == NewId(m1.wraps)
      m2 == [m1 EXCEPT !.wraps = HeapAlloc(@, NewParams)]
  IN IF init.kind = "raise"
       THEN CreateCatch(m2, admissioner, params, init.exc, << "init" >>, free_raises)
  ELSE
  LET data == IF init.kind = "new" THEN NewId(m2.objs) ELSE init.obj
      m3 == IF init.kind = "new"
              THEN [m2 EXCEPT !.objs = HeapAlloc(@, NewObject(init.val))]
              ELSE m2
      m4 == [m3 EXCEPT !.wraps[params].data = data,
                       !.wraps[params].admissioner_admit_hook = admit_hook,
                       !.wraps[params].admissioner_clone_hook = "clone_hook",
                       !.wraps[params].admissioner_update_hook = "update_hook",
                       !.wraps[params].admissioner_free_hook = "free_hook"]
  IN IF fail = "name"
       THEN CreateCatch(m4, admissioner, params, Exc("bad_alloc", "std::bad_alloc"),
                        << "init" >>, free_raises)
  ELSE
  LET m5 == [m4 EXCEPT !.wraps[params].admissioner_name = name,
                       !.recs[admissioner].params = params]
  IN Outcome(m5, NoExc, PyRec(admissioner), << "init" >>, 0)


\* ------------------------------------------------------------ trampolines
\* What the update hook does to the state object o.
UpdateHookRuns(m, o, req, cache_size) == [m EXCEPT !.objs[o].val = @ + 1]

PypluginAdmitSwallows(m, admissioner, req, raises) ==
  Outcome(m, NoExc, PyBool(FALSE), << "admit" >>, 0)

PypluginAdmitAlwaysTrue(m, admissioner, req, raises) ==
  Outcome(m, raises, IF raises = NoExc THEN PyBool(TRUE) ELSE NoRet, << "admit" >>, 0)

PypluginAdmitTouchesRecord(m, admissioner, req, raises) ==
  Outcome([m EXCEPT !.recs[admissioner].init_params = << >>], raises,
          IF raises = NoExc THEN PyBool(TRUE) ELSE NoRet, << "admit" >>, 0)

\* pypluginAdmissioner_admit; raises is the exception the hook raises, NoExc
\* when it returns.
PypluginAdmit(m, admissioner, req, raises) ==
  LET params == m.wraps[m.recs[admissioner].params]
      r == AdmitHookReturn(params.admissioner_admit_hook, m.objs[params.data].val, req)
  IN IF raises /= NoExc THEN Outcome(m, raises, NoRet, << "admit" >>, 0)
     ELSE IF ~CastBool(r).ok THEN Outcome(m, CastError, NoRet, << "admit" >>, 0)
     ELSE Outcome(m, NoExc, PyBool(CastBool(r).value), << "admit" >>, 0)

\* pypluginAdmissioner_update
PypluginUpdate(m, admissioner, req, cache_size, raises) ==
  LET params == m.wraps[m.recs[admissioner].params]
  IN IF raises /= NoExc THEN Outcome(m, raises, NoRet, << "update" >>, 0)
     ELSE Outcome(UpdateHookRuns(m, params.data, req, cache_size), NoExc, NoRet,
                  << "update" >>, 0)

\* pypluginAdmissioner_free: the hook is called on params->data; nothing is
\* caught and nothing is deleted.
PypluginFree(m, admissioner, raises) ==
  LET p == m.recs[admissioner].params
      params == m.wraps[p]
  IN Outcome([FreeHookRuns(m, params.data) EXCEPT !.wraps[p].free_calls = @ + 1],
             raises, NoRet, << "free" >>, 1)

\* What the clone hook does: raises; returns None; returns an object that is
\* no Admissioner; or returns an Admissioner it made with
\* create_plugin_admissioner, whose init hook hands out a copy of the state
\* ("copy") or the state itself ("share"), and which the hook keeps a
\* reference to ("_kept") or not ("_dropped").
CloneHookResults == {"none", "other", "copy_kept", "share_kept", "copy_dropped",
                     "share_dropped"}

\* pypluginAdmissioner_clone: the hook's return value is cast to a record
\* pointer and the temporary py::object is destroyed; an Admissioner instance
\* nothing else refers to is deallocated with it, and being the owner of its
\* record (take_ownership, line 225) deletes the record.
PypluginClone(m, admissioner, result, raises) ==
  LET params == m.wraps[m.recs[admissioner].params]
      init == IF result \in {"copy_kept", "copy_dropped"}
                THEN InitNew(m.objs[params.data].val)
                ELSE InitSame(params.data)
      made == CreatePluginAdmissioner(m, params.admissioner_name,
                                      params.admissioner_admit_hook, init, "none", FALSE)
      obj == CASE result = "none" -> NoRet
               [] result = "other" -> PyVal("object", 0)
               [] OTHER -> made.ret
      m1 == IF result \in {"none", "other"} THEN m ELSE made.m
      m2 == IF result \in {"copy_dropped", "share_dropped"}
              THEN [m1 EXCEPT !.stale = @ \cup {made.ret.v}]
              ELSE m1
      hooks == IF result \in {"none", "other"} THEN << "clone" >>
               ELSE << "clone", "nested_init" >>
  IN IF raises /= NoExc THEN Outcome(m, raises, NoRet, << "clone" >>, 0)
     ELSE IF ~CastRec(obj).ok THEN Outcome(m1, CastError, NoRet, hooks, 0)
     ELSE Outcome(m2, NoExc,
                  IF CastRec(obj).value = NULL THEN NoRet ELSE PyRec(CastRec(obj).value),
                  hooks, 0)


\* ------------------------------------------------------------ dispatch surface
NullPointer(op) == Exc("runtime_error", op \o " function pointer is NULL")

DispatchAdmitIgnoresNull(m, self, req, raises) ==
  IF m.recs[self].admit = NullFn
    THEN Outcome(m, NoExc, PyBool(FALSE), << >>, 0)
    ELSE PypluginAdmit(m, self, req, raises)

\* The admit lambda of the Admissioner class (lines 176-182).
DispatchAdmit(m, self, req, raises) ==
  IF m.recs[self].admit = NullFn
    THEN Outcome(m, NullPointer("admit"), NoRet, << >>, 0)
    ELSE PypluginAdmit(m, self, req, raises)

\* The clone lambda (lines 184-189).
DispatchClone(m, self, result, raises) ==
  IF m.recs[self].clone = NullFn
    THEN Outcome(m, NullPointer("clone"), NoRet, << >>, 0)
    ELSE PypluginClone(m, self, result, raises)

\* The update lambda (lines 191-197).
DispatchUpdate(m, self, req, cache_size, raises) ==
  IF m.recs[self].update = NullFn
    THEN Outcome(m, NullPointer("update"), NoRet, << >>, 0)
    ELSE PypluginUpdate(m, self, req, cache_size, raises)

\* The free lambda (lines 199-203).
DispatchFree(m, self, raises) ==
  IF m.recs[self].free = NullFn
    THEN Outcome(m, NullPointer("free"), NoRet, << >>, 0)
    ELSE PypluginFree(m, self, raises)

\* ------------------------------------------------------------ threads
Threads == 1..MaxThreads

\* A thread outside every trampoline.
Idle == [at |-> "idle", op |-> "none", rec |-> NULL]

\* A thread inside the hook that the trampoline op of the record rec invoked.
InHook(op, rec) == [at |-> "hook", op |-> op, rec |-> rec]

\* The trampoline call a thread is in, once its hook has returned.
TrampolineCall(m, call, req, cache_size) ==
  CASE call.op = "admit" -> PypluginAdmit(m, call.rec, req, NoExc)
    [] call.op = "update" -> PypluginUpdate(m, call.rec, req, cache_size, NoExc)
    [] call.op = "free" -> PypluginFree(m, call.rec, NoExc)
    [] call.op = "clone" -> PypluginClone(m, call.rec, "none", NoExc)

\* ------------------------------------------------------------ built-in creators
\* The creators export_admissioner exposes (lines 211-220).
Factories == {"create_bloomfilter_admissioner", "create_prob_admissioner",
              "create_size_admissioner", "create_size_probabilistic_admissioner",
              "create_adaptsize_admissioner"}

PyStr(s) == PyVal("str", s)

\* The arguments a caller passes as params_obj: None, a string, or an object
\* that is no string.
ConfigVals ==
  {NoRet, PyVal("int", 5)}
    \cup {PyStr(s) : s \in UNION {[1..n -> Bytes] : n \in 0..MaxConfig}}

\* What the creator fn does with the params it is given: it returns a record
\* it allocated, or NULL.
CreatorResults == {"record", "null"}

\* No creator has been called.  factory is the bound function called, called
\* whether it reached fn, params what fn was given (NoString for nullptr), ret
\* what fn returned, made the number of records the creators allocated.
NoCreatorCall ==
  [factory |-> "none", called |-> FALSE, params |-> NoString, ret |-> NULL, made |-> 0]

ExportAdmissionerCreatorReturnsNull(nat, name, params_obj, result) ==
  [nat |-> [factory |-> name, called |-> TRUE, params |-> NoString, ret |-> NULL,
            made |-> nat.made],
   exc |-> NoExc, ret |-> NoRet]

\* The lambda export_admissioner_creator<fn> binds under name (lines 123-140).
\* Records of the creators are numbered from 1 in the creators' own heap.
ExportAdmissionerCreator(nat, name, params_obj, result) ==
  IF params_obj.t \notin {"none", "str"}
    THEN [nat |-> [nat EXCEPT !.factory = name, !.called = FALSE,
                              !.params = NoString, !.ret = NULL],
          exc |-> CastError, ret |-> NoRet]
  ELSE
  LET params == IF params_obj.t = "none" THEN NoString ELSE CStr(params_obj.v)
      admissioner == IF result = "record" THEN nat.made + 1 ELSE NULL
      nat1 == [factory |-> name, called |-> TRUE, params |-> params,
               ret |-> admissioner,
               made |-> IF result = "record" THEN nat.made + 1 ELSE nat.made]
  IN IF admissioner = NULL
       THEN [nat |-> nat1,
             exc |-> Exc("runtime_error", "Creator for " \o name \o " returned NULL"),
             ret |-> NoRet]
       ELSE [nat |-> nat1, exc |-> NoExc, ret |-> PyRec(admissioner)]

\* ------------------------------------------------------------ state
VARIABLES
  recs,     \* address -> admissioner_t, for every address a Python
            \* Admissioner instance points at
  stale,    \* the addresses among them that have been freed
  wraps,    \* address -> pypluginAdmissioner_params_t
  objs,     \* Python state objects: [val, freed]
  clones,   \* the pairs <<P, P'>> with P' returned by clone on P
  plugin,   \* the admit hook of the plugin the caller creates policies from
  last,     \* the last call made and what its caller saw
  gil,      \* the thread holding the interpreter's guard, NULL for none
  pc,       \* thread -> where it is: idle, or inside a hook of a trampoline
  native    \* the last call of a built-in creator, and the records they made

vars == << recs, stale, wraps, objs, clones, plugin, last, gil, pc, native >>

M == [recs |-> recs, stale |-> stale, wraps |-> wraps, objs |-> objs]

Live(m) == DOMAIN m.recs \ m.stale

\* What the caller of a bound function sees of the outcome out of the call
\* op(rec, arg) made in the heaps before, with the exception its hook was
\* set to raise (NoExc for a hook that returns).
Seen(op, rec, arg, raised, before, out) ==
  LET err == IF out.exc = NoExc
               THEN [exc |-> "none", msg |-> "", clause |-> "none"]
               ELSE CallerError(out.exc)
  IN [op |-> op, rec |-> rec, arg |-> arg, raised |-> raised,
      status |-> IF out.exc = NoExc THEN "ok" ELSE "error",
      exc |-> err.exc, msg |-> err.msg, clause |-> err.clause,
      thrown |-> out.exc, ret |-> out.ret,
      hooks |-> out.hooks, attempts |-> out.attempts,
      new_recs |-> Live(out.m) \ Live(before),
      new_wraps |-> DOMAIN out.m.wraps \ DOMAIN before.wraps]

Install(out) ==
  /\ recs' = out.m.recs
  /\ stale' = out.m.stale
  /\ wraps' = out.m.wraps
  /\ objs' = out.m.objs

Raises == {NoExc} \cup HookExcs

Init ==
  /\ recs = EmptyHeap
  /\ stale = {}
  /\ wraps = EmptyHeap
  /\ objs = EmptyHeap
  /\ clones = {}
  /\ plugin = NullHook
  /\ gil = NULL
  /\ pc = [t \in Threads |-> Idle]
  /\ native = NoCreatorCall
  /\ last = Seen("none", NULL, << >>, NoExc, M, Outcome(M, NoExc, NoRet, << >>, 0))

\* An address handed out again belongs to a new record.
Forget(pairs, a) == {c \in pairs : c[1] /= a /\ c[2] /= a}

\* Admissioner(): py::init<>() value-initialises a new admissioner_t.
Construct ==
  /\ NewRec(M) <= MaxRecs
  /\ \E out \in {Outcome(AllocRec(M, ZeroRecord), NoExc, PyRec(NewRec(M)), << >>, 0)} :
        /\ Install(out)
        /\ clones' = Forget(clones, out.ret.v)
        /\ last' = Seen("init", NULL, << >>, NoExc, M, out)
  /\ UNCHANGED << plugin, gil, pc, native >>

\* create_plugin_admissioner(name, init, admit, clone, update, free) with the
\* caller's hooks
CreatePlugin ==
  \E fail \in CreateFails, free_raises \in BOOLEAN,
     init \in {InitNew(0)} \cup {InitRaises(e) : e \in HookExcs},
     admit_hook \in (IF plugin = NullHook THEN AdmitHooks ELSE {plugin}) :
    /\ NewRec(M) <= MaxRecs
    /\ NewId(wraps) <= MaxRecs
    /\ \E out \in {CreatePluginAdmissioner(M, << 1, 2 >>, admit_hook, init, fail, free_raises)} :
          /\ Install(out)
          /\ clones' = IF out.exc = NoExc THEN Forget(clones, out.ret.v) ELSE clones
          /\ last' = Seen("create", NULL, << >>, init.exc, M, out)
    /\ plugin' = admit_hook
    /\ UNCHANGED << gil, pc, native >>

\* self.admit(req) on the Admissioner instance pointing at self
Admit ==
  \E self \in DOMAIN recs, req \in Reqs, raises \in Raises :
    \E out \in {DispatchAdmit(M, self, req, raises)} :
       /\ Install(out)
       /\ last' = Seen("admit", self, << req >>, raises, M, out)
       /\ UNCHANGED << clones, plugin, gil, pc, native >>

\* self.update(req, cache_size)
Update ==
  \E self \in DOMAIN recs, req \in Reqs, cache_size \in CacheSizes, raises \in Raises :
    \E out \in {DispatchUpdate(M, self, req, cache_size, raises)} :
       /\ \A o \in DOMAIN out.m.objs : out.m.objs[o].val <= MaxVal
       /\ Install(out)
       /\ last' = Seen("update", self, << req, cache_size >>, raises, M, out)
       /\ UNCHANGED << clones, plugin, gil, pc, native >>

\* self.free()
Free ==
  \E self \in DOMAIN recs, raises \in Raises :
    \E out \in {DispatchFree(M, self, raises)} :
       /\ \A w \in DOMAIN out.m.wraps : out.m.wraps[w].free_calls <= MaxFree
       /\ Install(out)
       /\ last' = Seen("free", self, << >>, raises, M, out)
       /\ UNCHANGED << clones, plugin, gil, pc, native >>

\* What the clone hook does in one call: one of its results, or raising.
CloneHookDoes == {<< result, NoExc >> : result \in CloneHookResults}
                   \cup {<< "none", e >> : e \in HookExcs}

\* self.clone()
Clone ==
  \E self \in DOMAIN recs, does \in CloneHookDoes :
    \E out \in {DispatchClone(M, self, does[1], does[2])} :
       /\ \A a \in DOMAIN out.m.recs \cup DOMAIN out.m.wraps : a <= MaxRecs
       /\ Install(out)
       /\ last' = Seen("clone", self, << >>, does[2], M, out)
       /\ clones' = IF out.ret.t = "Admissioner"
                      THEN Forget(clones, out.ret.v) \cup {<< self, out.ret.v >>}
                      ELSE clones
       /\ UNCHANGED << plugin, gil, pc, native >>

\* Any use of an Admissioner instance whose record has been freed reads freed
\* memory: besides behaving as if the record were still there (the actions
\* above), the call may do anything else.
UseAfterFree ==
  \E self \in stale, op \in {"admit", "clone", "update", "free", "set_name"} :
    /\ last' = [Seen(op, self, << >>, NoExc, M, Outcome(M, NoExc, NoRet, << >>, 0))
                  EXCEPT !.status = "undefined"]
    /\ UNCHANGED << recs, stale, wraps, objs, clones, plugin, gil, pc, native >>

\* self.admissioner_name = val
AssignName ==
  \E self \in DOMAIN recs, val \in NameVals :
    /\ recs' = [recs EXCEPT ![self].admissioner_name = SetName(val)]
    /\ last' = Seen("set_name", self, val, NoExc, M, Outcome(M, NoExc, NoRet, << >>, 0))
    /\ UNCHANGED << stale, wraps, objs, clones, plugin, gil, pc, native >>

\* self.init_params = val
AssignInitParams ==
  \E self \in DOMAIN recs, val \in InitParamVals :
    /\ recs' = [recs EXCEPT ![self].init_params = Strdup(val)]
    /\ last' = Seen("set_init_params", self, val, NoExc, M, Outcome(M, NoExc, NoRet, << >>, 0))
    /\ UNCHANGED << stale, wraps, objs, clones, plugin, gil, pc, native >>

\* A bound function throws a C++ exception of type t, which reaches the
\* translator.
NativeThrow ==
  \E t \in ThrownTypes :
    /\ last' = Seen("native", NULL, << >>, NoExc, M, Outcome(M, Exc(t, "what"), NoRet, << >>, 0))
    /\ UNCHANGED << recs, stale, wraps, objs, clones, plugin, gil, pc, native >>

\* The interpreter hands its guard to a thread that runs Python code, such as
\* the caller of a bound function.
TakeGuard ==
  \E t \in Threads :
    /\ gil = NULL
    /\ pc[t] = Idle
    /\ gil' = t
    /\ UNCHANGED << recs, stale, wraps, objs, clones, plugin, last, pc, native >>

\* A thread that runs no Python code gives the guard back.
DropGuard ==
  \E t \in Threads :
    /\ gil = t
    /\ pc[t] = Idle
    /\ gil' = NULL
    /\ UNCHANGED << recs, stale, wraps, objs, clones, plugin, last, pc, native >>

\* A thread calls an entry of the function table of a plugin record: the
\* trampoline reads params and invokes the hook (lines 94-96, 100-102,
\* 106-108, 114-116).  No statement of a trampoline takes the guard.
EnterTrampoline ==
  \E t \in Threads, self \in Live(M), op \in {"admit", "clone", "update", "free"} :
    /\ pc[t] = Idle
    /\ recs[self].free = "pypluginAdmissioner_free"
    /\ pc' = [pc EXCEPT ![t] = InHook(op, self)]
    /\ UNCHANGED << recs, stale, wraps, objs, clones, plugin, last, gil, native >>

\* The hook a thread is in returns, and the trampoline with it.  Python code
\* run by a thread that does not hold the guard has no defined behaviour: the
\* call may go as it would under the guard, or in any other way.
LeaveTrampoline ==
  \E t \in Threads, req \in Reqs, cache_size \in CacheSizes, defined \in BOOLEAN :
    /\ pc[t].at = "hook"
    /\ gil = t => defined
    /\ \E out \in {TrampolineCall(M, pc[t], req, cache_size)} :
          /\ \A o \in DOMAIN out.m.objs : out.m.objs[o].val <= MaxVal
          /\ \A w \in DOMAIN out.m.wraps : out.m.wraps[w].free_calls <= MaxFree
          /\ Install(out)
          /\ last' = [Seen(pc[t].op, pc[t].rec, << >>, NoExc, M, out)
                        EXCEPT !.status = IF defined THEN @ ELSE "undefined"]
    /\ pc' = [pc EXCEPT ![t] = Idle]
    /\ UNCHANGED << clones, plugin, gil, native >>

\* create_<policy>_admissioner(params_obj)
CreateBuiltin ==
  \E name \in Factories, params_obj \in ConfigVals, result \in CreatorResults :
    \E c \in {ExportAdmissionerCreator(native, name, params_obj, result)} :
       /\ c.nat.made <= MaxRecs
       /\ native' = c.nat
       /\ last' = Seen("builtin", NULL, << params_obj >>, NoExc, M,
                       Outcome(M, c.exc, c.ret, << >>, 0))
       /\ UNCHANGED << recs, stale, wraps, objs, clones, plugin, gil, pc >>

NextDispatch ==
  \/ Construct
  \/ CreatePlugin
  \/ Admit
  \/ Update
  \/ Free
  \/ Clone
  \/ UseAfterFree

NextName ==
  \/ Construct
  \/ AssignName

NextTranslate ==
  \/ Construct
  \/ CreatePlugin
  \/ Admit
  \/ AssignInitParams
  \/ NativeThrow

NextThreads ==
  \/ CreatePlugin
  \/ TakeGuard
  \/ DropGuard
  \/ EnterTrampoline
  \/ LeaveTrampoline

NextFactory ==
  \/ CreateBuiltin

Next == NextDispatch \/ NextName \/ NextTranslate \/ NextThreads \/ NextFactory

Spec == Init /\ [][Next]_vars
SpecDispatch == Init /\ [][NextDispatch]_vars
SpecName == Init /\ [][NextName]_vars
SpecTranslate == Init /\ [][NextTranslate]_vars
SpecThreads == Init /\ [][NextThreads]_vars
SpecFactory == Init /\ [][NextFactory]_vars


\* ------------------------------------------------------------ claims
DispatchOps == {"admit", "clone", "update", "free"}

\* The function-table entry of the record r for the dispatch call op.
Entry(r, op) ==
  CASE op = "admit" -> r.admit
    [] op = "clone" -> r.clone
    [] op = "update" -> r.update
    [] op = "free" -> r.free

\* The last call was the dispatch call op on a record that is allocated.
Dispatched(op) == last.op = op /\ last.rec \in Live(M) /\ last.status /= "undefined"

\* A step that is a dispatch call through an unset entry of an allocated
\* record fails, naming the operation, and changes nothing.
C1_UnsetEntryStep ==
  \A op \in DispatchOps :
    (/\ last'.op = op
     /\ last'.rec \in Live(M)
     /\ Entry(recs[last'.rec], op) = NullFn)
    => /\ last'.status = "error"
       /\ last'.exc = "RuntimeError"
       /\ last'.msg = op \o " function pointer is NULL"
       /\ last'.hooks = << >>
       /\ last'.rec \in Live(M)'
       /\ recs'[last'.rec] = recs[last'.rec]
       /\ wraps' = wraps
       /\ objs' = objs

\* C1: a dispatch call through an unset function-table entry fails with an
\* error whose message names the operation, invokes no hook, and leaves the
\* record, the wrappers and the Python state as they were.
C1_UnsetEntryFails == [][C1_UnsetEntryStep]_vars

C1_Witness ==
  /\ Dispatched("admit")
  /\ recs[last.rec].admit = NullFn
  /\ last.status = "error"
  /\ last.msg = "admit function pointer is NULL"


\* A record made by create_plugin_admissioner and still allocated.
PluginBacked(a) == a \in Live(M) /\ recs[a].free = "pypluginAdmissioner_free"

\* C2: the free hook is never invoked a second time on the state of a
\* plugin-backed record (a second free is rejected or does nothing).
C2_AtMostOneFree ==
  \A a \in DOMAIN recs :
    PluginBacked(a) => wraps[recs[a].params].free_calls <= 1

\* What admit(P, req) returns in the heaps m when its hook does not raise.
AdmitAnswer(m, a, req) == DispatchAdmit(m, a, req, NoExc).ret

\* An update of a record or of its clone leaves what admit returns on the
\* other as it was.
C3_CloneIndependenceStep ==
  \A c \in clones :
    (PluginBacked(c[1]) /\ PluginBacked(c[2])) =>
      /\ (last'.op = "update" /\ last'.rec = c[2])
           => \A req \in Reqs : AdmitAnswer(M', c[1], req) = AdmitAnswer(M, c[1], req)
      /\ (last'.op = "update" /\ last'.rec = c[1])
           => \A req \in Reqs : AdmitAnswer(M', c[2], req) = AdmitAnswer(M, c[2], req)

\* C3: with P' = clone(P), an update of one of the two never changes what
\* admit returns on the other for any request.
C3_CloneIndependence == [][C3_CloneIndependenceStep]_vars

\* The last call was create_plugin_admissioner and its init hook raised.
InitRaised == last.op = "create" /\ last.raised /= NoExc /\ last.hooks /= << >>

\* C4: when the init hook raises, create_plugin_admissioner fails and
\* leaves neither the record nor the wrapper it allocated.
C4_AllOrNothing ==
  InitRaised => /\ last.status = "error"
                /\ last.new_recs = {}
                /\ last.new_wraps = {}

C4_Witness ==
  /\ InitRaised
  /\ last.status = "error"
  /\ last.hooks[1] = "init"
  /\ DOMAIN recs /= {}

\* C5: when the init hook raises, the caller gets init's failure, and no
\* call of a free hook is made or attempted.
C5_NoTeardownOnInitFailure ==
  InitRaised => /\ last.status = "error"
                /\ last.exc = last.raised.py
                /\ last.msg = last.raised.what
                /\ last.hooks = << "init" >>
                /\ last.attempts = 0


\* The nearest base class of t, t included, that the translator has a clause
\* for: the most specific kind of the list that t matches.
RECURSIVE NearestClause(_)
NearestClause(t) ==
  IF t = "none" THEN "none"
  ELSE IF \E i \in 1..Len(CatchOrder) : CatchOrder[i] = t THEN t
  ELSE NearestClause(Parent(t))

\* The last call threw a C++ exception that went to the translator.
Translated == last.status = "error" /\ last.thrown.type /= "error_already_set"

\* C6: the translator reports every failure as the most specific kind of
\* its list that the failure matches; no clause stands behind a clause for
\* one of its base classes.
C6_ErrorOrdering ==
  /\ \A i, j \in 1..Len(CatchOrder) : i < j => ~IsA(CatchOrder[j], CatchOrder[i])
  /\ Translated =>
       /\ last.clause = NearestClause(last.thrown.type)
       /\ last.clause /= "none" =>
            last.exc = ClauseError(NearestClause(last.thrown.type), last.thrown.what).exc

C6_Witness ==
  /\ last.op = "native"
  /\ last.thrown.type = "overflow_error"
  /\ last.exc = "OverflowError"

\* The longest prefix of s of at most n bytes.
Prefix(s, n) == SubSeq(s, 1, IF Len(s) < n THEN Len(s) ELSE n)

\* The last call assigned last.arg to the name of an allocated record.
NameAssigned == last.op = "set_name" /\ last.rec \in Live(M) /\ last.status = "ok"

Terminated(a) ==
  /\ \E i \in 1..CACHE_NAME_LEN : recs[a].admissioner_name[i] = 0
  /\ Len(GetName(recs[a].admissioner_name)) <= CACHE_NAME_LEN - 1

\* C7 as stated: the stored name is always terminated within CACHE_NAME_LEN
\* and is the longest prefix of the last assigned value that fits.
C7_NameIsPrefixOfValue ==
  /\ \A a \in Live(M) : Terminated(a)
  /\ NameAssigned =>
       GetName(recs[last.rec].admissioner_name) = Prefix(last.arg, CACHE_NAME_LEN - 1)

\* e is what a C string of capacity n keeps of the bytes s: a prefix of s
\* without a NUL that stops at the first NUL of s, at the end of s, or at
\* n - 1 bytes.
KeptOf(e, s, n) ==
  /\ Len(e) <= Len(s)
  /\ Len(e) <= n - 1
  /\ \A i \in 1..Len(e) : e[i] = s[i] /\ e[i] /= 0
  /\ \/ Len(e) = n - 1
     \/ Len(e) = Len(s)
     \/ s[Len(e) + 1] = 0

\* C7, amended: the stored name is always terminated within CACHE_NAME_LEN
\* and is the longest prefix that fits of the last assigned value up to its
\* first NUL byte; the assignment raises no error.
C7_NameTruncation ==
  /\ \A a \in Live(M) : Terminated(a)
  /\ (last.op = "set_name" /\ last.rec \in Live(M)) =>
       /\ last.status = "ok"
       /\ KeptOf(GetName(recs[last.rec].admissioner_name), last.arg, CACHE_NAME_LEN)

C7_Witness ==
  /\ NameAssigned
  /\ Len(last.arg) > CACHE_NAME_LEN
  /\ \A i \in 1..Len(last.arg) : last.arg[i] /= 0
  /\ Len(GetName(recs[last.rec].admissioner_name)) = CACHE_NAME_LEN - 1


\* C8: a free dispatch on a plugin-backed record returns normally, also when
\* the free hook raises.
C8_TeardownFailureSwallowed ==
  (Dispatched("free") /\ PluginBacked(last.rec)) => last.status = "ok"

\* The function table and the params binding of a record, and the wrapper
\* params points at.
Binding(rs, ws, a) ==
  [admit |-> rs[a].admit, clone |-> rs[a].clone, update |-> rs[a].update,
   free |-> rs[a].free, params |-> rs[a].params,
   wrapper |-> [ws[rs[a].params] EXCEPT !.free_calls = 0]]

\* A step in which the hook of an admit, update or clone dispatch raises.
C9_HookFailureStep ==
  \A op \in {"admit", "update", "clone"} :
    (/\ last'.op = op
     /\ last'.status /= "undefined"
     /\ PluginBacked(last'.rec)
     /\ last'.raised /= NoExc)
    => /\ last'.status = "error"
       /\ last'.exc = last'.raised.py
       /\ last'.msg = last'.raised.what
       /\ last'.hooks = << op >>
       /\ last'.rec \in Live(M)'
       /\ Binding(recs', wraps', last'.rec) = Binding(recs, wraps, last'.rec)

\* C9: when the hook of an admit, update or clone dispatch on a plugin-backed
\* record raises, the call fails with the hook's failure, the hook was
\* invoked once, and the record's function table and wrapper are as before.
C9_HookFailurePropagates == [][C9_HookFailureStep]_vars

C9_Witness ==
  /\ Dispatched("update")
  /\ PluginBacked(last.rec)
  /\ last.raised /= NoExc
  /\ last.status = "error"
  /\ last.exc = "ValueError"

\* The admit hook of the plugin-backed record a, and the state it is given.
AdmitHookOf(a) == wraps[recs[a].params].admissioner_admit_hook
StateOf(a) == objs[wraps[recs[a].params].data].val

\* The dispatch just made was free on the record bound to the wrapper w.
FreeDispatchedOn(w) ==
  /\ last'.op = "free"
  /\ last'.status /= "undefined"
  /\ last'.rec \in DOMAIN recs
  /\ recs[last'.rec].params = w

\* A step's admit dispatch returns what the admit hook returns, and a step
\* adds an invocation of a wrapper's free hook exactly when it is a free
\* dispatch on the wrapper's record, and then adds one.
C10_AdmitThenFreeStep ==
  /\ (/\ last'.op = "admit"
      /\ last'.status /= "undefined"
      /\ PluginBacked(last'.rec)
      /\ last'.raised = NoExc
      /\ AdmitHookReturn(AdmitHookOf(last'.rec), StateOf(last'.rec), last'.arg[1]).t = "bool")
     => /\ last'.status = "ok"
        /\ last'.hooks = << "admit" >>
        /\ last'.ret = AdmitHookReturn(AdmitHookOf(last'.rec), StateOf(last'.rec), last'.arg[1])
        /\ AdmitHookOf(last'.rec) = "admit_always_true" => last'.ret = PyBool(TRUE)
        /\ wraps' = wraps
  /\ \A w \in DOMAIN wraps :
       /\ w \in DOMAIN wraps'
       /\ wraps'[w].free_calls =
            wraps[w].free_calls + (IF FreeDispatchedOn(w) THEN 1 ELSE 0)
  /\ \A w \in DOMAIN wraps' \ DOMAIN wraps : wraps'[w].free_calls = 0

\* C10: an admit dispatch on a plugin-backed record returns the boolean its
\* admit hook returns for the state and the request (true for every request
\* with an always-true hook), and the free hook of a record is invoked once
\* for each free dispatch on it and by nothing else, so once in total after a
\* single free.
C10_AdmitThenFreeOnce == [][C10_AdmitThenFreeStep]_vars

C10_Witness ==
  /\ Dispatched("free")
  /\ PluginBacked(last.rec)
  /\ AdmitHookOf(last.rec) = "admit_always_true"
  /\ wraps[recs[last.rec].params].free_calls = 1
  /\ last.hooks = << "free" >>

\* The state object the plugin record a reaches through params, in heaps m.
DataOf(m, a) == m.wraps[m.recs[a].params].data

\* A free dispatch on P, made after P' = clone(P), releases nothing of the
\* state P' operates on.
C11_CloneOutlivesStep ==
  \A c \in clones :
    (/\ last'.op = "free"
     /\ last'.rec = c[1]
     /\ last'.status /= "undefined"
     /\ PluginBacked(c[1])
     /\ PluginBacked(c[2]))
    => /\ DataOf(M, c[2]) \in DOMAIN objs'
       /\ objs'[DataOf(M, c[2])].freed = objs[DataOf(M, c[2])].freed

\* C11: with P' = clone(P), a free dispatched on P releases nothing of the
\* state that the dispatches on P' operate on.
C11_CloneOutlivesOriginal == [][C11_CloneOutlivesStep]_vars

\* The threads inside a hook.
Running == {t \in Threads : pc[t].at = "hook"}

\* C12: a hook runs only in a thread that holds the guard, and two hooks
\* never run at the same time.
C12_HooksUnderGuard ==
  /\ \A t \in Running : gil = t
  /\ Cardinality(Running) <= 1

\* The last call was one of a built-in factory, with last.arg[1] as its
\* configuration.
FactoryCalled == last.op = "builtin"

\* The message msg names the factory f.
NamesFactory(msg, f) ==
  \E pre \in {"", "Creator for "}, post \in {"", " returned NULL"} : msg = pre \o f \o post

UpToNul(e, s) ==
  /\ Len(e) <= Len(s)
  /\ \A i \in 1..Len(e) : e[i] = s[i] /\ e[i] /= 0
  /\ Len(e) = Len(s) \/ s[Len(e) + 1] = 0

C14_CloneAllocates ==
  (Dispatched("clone") /\ PluginBacked(last.rec) /\ last.raised = NoExc) =>
    /\ last.status = "ok"
    /\ last.hooks[1] = "clone"
    /\ last.ret.t = "Admissioner"
    /\ last.ret.v \in last.new_recs
    /\ recs[last.ret.v].params \in last.new_wraps

\* C15: after a free dispatch on a plugin record the free hook has been
\* invoked once and the wrapper bound to params is no longer allocated.
C15_FreeReleasesWrapper ==
  (Dispatched("free") /\ PluginBacked(last.rec)) =>
    /\ last.hooks = << "free" >>
    /\ recs[last.rec].params \notin DOMAIN wraps

\* The last call was create_plugin_admissioner, its init hook returned a
\* state, and the call failed.
FailedAfterInit ==
  /\ last.op = "create"
  /\ last.status = "error"
  /\ last.raised = NoExc
  /\ last.hooks /= << >>
  /\ last.hooks[1] = "init"

\* C16: when create_plugin_admissioner fails after its init hook returned,
\* the free hook is invoked once, its failure is swallowed, the record and
\* the wrapper are released, and the caller gets the construction failure.
C16_NoLeakOnPartialFailure ==
  FailedAfterInit =>
    /\ last.hooks \in {<< "init", "free" >>, << "init", "free_raised" >>}
    /\ last.attempts = 1
    /\ last.new_recs = {}
    /\ last.new_wraps = {}
    /\ DOMAIN objs = {wraps[w].data : w \in DOMAIN wraps}
    /\ last.thrown = Exc("bad_alloc", "std::bad_alloc")
    /\ last.exc = "MemoryError"

C16_Witness ==
  /\ FailedAfterInit
  /\ last.hooks = << "init", "free_raised" >>
  /\ last.exc = "MemoryError"
  /\ DOMAIN wraps /= {}

\* The nine rules of the translator as the taxonomy lists them: the failure
\* matched, the error reported, the qualifier put before the message.
Rules ==
  << << "CacheException", "CacheException", "" >>,
     << "ReaderException", "ReaderException", "" >>,
     << "bad_alloc", "MemoryError", "" >>,
     << "invalid_argument", "ValueError", "" >>,
     << "out_of_range", "IndexError", "" >>,
     << "domain_error", "ValueError", "Domain error: " >>,
     << "overflow_error", "OverflowError", "" >>,
     << "range_error", "ValueError", "Range error: " >>,
     << "runtime_error", "RuntimeError", "" >> >>

\* The rules the thrown type t matches.
RulesFor(t) == {i \in 1..Len(Rules) : IsA(t, Rules[i][1])}

\* The last error is the one the first matching rule gives.
ByFirstRule ==
  LET i == Min(RulesFor(last.thrown.type))
  IN /\ last.exc = Rules[i][2]
     /\ last.msg = Rules[i][3] \o last.thrown.what

\* The last error is a RuntimeError that keeps the message behind a qualifier.
AsQualifiedRuntimeError ==
  /\ last.exc = "RuntimeError"
  /\ last.msg = "C++ exception: " \o last.thrown.what

\* C17 as stated: every failure is reported by the first rule it matches,
\* and one that matches none of the nine as a RuntimeError with a qualifier
\* and its message.
C17_TranslatorTotal ==
  Translated =>
    IF RulesFor(last.thrown.type) /= {} THEN ByFirstRule ELSE AsQualifiedRuntimeError

\* C17, amended: every failure is reported by the first rule it matches; one
\* that matches none of the nine is reported as a RuntimeError with a
\* qualifier and its message when it is a std::exception, and otherwise
\* leaves the translator and is reported as a RuntimeError without them.
C17_TranslatorMapping ==
  Translated =>
    IF RulesFor(last.thrown.type) /= {} THEN ByFirstRule
    ELSE IF IsA(last.thrown.type, "exception") THEN AsQualifiedRuntimeError
    ELSE /\ last.clause = "none"
         /\ last.exc = "RuntimeError"
         /\ last.msg = "Caught an unknown exception!"

C17_Witness ==
  /\ last.op = "native"
  /\ last.thrown.type = "length_error"
  /\ RulesFor(last.thrown.type) = {}
  /\ last.msg = "C++ exception: what"

\* A step that is an admit dispatch on an allocated record changes no
\* record and no wrapper, allocates nothing, and returns a boolean if it
\* returns.
C18_AdmitFrameStep ==
  (/\ last'.op = "admit"
   /\ last'.status /= "undefined"
   /\ last'.rec \in Live(M))
  => /\ recs' = recs
     /\ stale' = stale
     /\ wraps' = wraps
     /\ last'.status = "ok" => last'.ret.t = "bool"
     /\ last'.status = "error" => last'.ret = NoRet

\* C18: an admit dispatch returns only a boolean and leaves every record
\* (name, init_params, function table, params) and every wrapper (state
\* reference and hooks) as they were.
C18_AdmitDoesNotMutate == [][C18_AdmitFrameStep]_vars

C18_Witness ==
  /\ Dispatched("admit")
  /\ PluginBacked(last.rec)
  /\ AdmitHookOf(last.rec) = "admit_by_state"
  /\ last.status = "ok"
  /\ last.ret = PyBool(FALSE)
  /\ StateOf(last.rec) = 1

\* The last call was create_plugin_admissioner and it returned a record.
Created == last.op = "create" /\ last.status = "ok"

\* C19: when create_plugin_admissioner returns a record, only the init hook
\* has been invoked, and once; the four entries of the record are the
\* trampolines, and params is a wrapper the call allocated, holding the state
\* init returned and the supplied hooks, so that no entry is unset.
C19_ConstructionPostcondition ==
  Created =>
    /\ last.hooks = << "init" >>
    /\ last.attempts = 0
    /\ last.ret.t = "Admissioner"
    /\ last.new_recs = {last.ret.v}
    /\ LET r == recs[last.ret.v]
       IN /\ r.admit = "pypluginAdmissioner_admit"
          /\ r.clone = "pypluginAdmissioner_clone"
          /\ r.update = "pypluginAdmissioner_update"
          /\ r.free = "pypluginAdmissioner_free"
          /\ \A op \in DispatchOps : Entry(r, op) /= NullFn
          /\ last.new_wraps = {r.params}
          /\ wraps[r.params].data \in DOMAIN objs
          /\ objs[wraps[r.params].data] = NewObject(0)
          /\ wraps[r.params].admissioner_admit_hook = plugin
          /\ wraps[r.params].admissioner_clone_hook = "clone_hook"
          /\ wraps[r.params].admissioner_update_hook = "update_hook"
          /\ wraps[r.params].admissioner_free_hook = "free_hook"
          /\ wraps[r.params].free_calls = 0

C19_Witness ==
  /\ Created
  /\ last.ret.v = MaxRecs
  /\ recs[last.ret.v].params \in DOMAIN wraps
  /\ Cardinality(DOMAIN wraps) = MaxRecs

====
